---- MODULE Spec2Model ----
(***************************************************************************)
(* A model of email_renderer.py: the EmailRenderer class (data loading,    *)
(* personalisation merge, the two template filters, the render_email       *)
(* workflow).                                                              *)
(*                                                                         *)
(* Python values are modelled as follows.                                  *)
(*   str   a sequence of one-character strings                             *)
(*   dict  a function whose domain is the set of keys present             *)
(*   list  a sequence                                                      *)
(* Mutable containers that the code can reach through two names live in    *)
(* `heap` (a sequence of objects, a reference is an index into it), so     *)
(* that dict.copy() being shallow is visible in the model.                 *)
(***************************************************************************)
EXTENDS Integers, Sequences, FiniteSets, TLC

VARIABLES
    heap,            \* the Python objects allocated so far
    base_data,       \* reference to the base dataset (0: not loaded)
    user_data,       \* the user profile passed to merge_data (a dict value)
    merged_data,     \* reference returned by the last merge_data (0: none)
    error,           \* the exception that left the last call, or NoError
    base_before,     \* history: deep value of the base before the last merge
    pc,              \* render_email: the statement reached
    data_file,       \* the file templates/email-data.json
    user_data_file,  \* render_email's user_data_file argument and that file
    template,        \* the template email-template.j2 in the loader's directory
    html_content,    \* render_email's html_content
    output,          \* the output file
    output0,         \* history: the output file when render_email was called
    trace,           \* history: the methods render_email has called so far
    filter,          \* the filter the template applies ("none": none)
    text,            \* _truncate_words: text
    count,           \* _truncate_words: count
    date_str,        \* _format_date: date_str
    format_type,     \* _format_date: format_type
    filtered,        \* the string the filter returned
    filter_error,    \* the exception that left the filter, or NoError
    user_files,      \* batch_render_emails: the user data files the glob found
    batch_i,         \* batch_render_emails: index of the user file treated next
    rendered_files,  \* batch_render_emails: rendered_files
    written,         \* the batch output files on disk, path to contents
    results          \* history: per user file treated, how its render ended

mergeVars == <<heap, base_data, user_data, merged_data, error, base_before>>
fileVars == <<data_file, user_data_file, template, html_content, output,
              output0, trace>>
renderVars == <<pc, fileVars>>

filterVars == <<filter, text, count, date_str, format_type, filtered, filter_error>>

batchVars == <<user_files, batch_i, rendered_files, written, results>>

vars == <<mergeVars, renderVars, filterVars, batchVars>>

(***************************************************************************)
(* Bounds of the model.                                                    *)
(***************************************************************************)
MaxArticles == 3
MaxFileArticles == 2
MaxLen == 5
MaxCount == 3
MaxUsers == 2

(***************************************************************************)
(* Strings.                                                                *)
(***************************************************************************)
UpperCase == <<"A","B","C","D","E","F","G","H","I","J","K","L","M",
               "N","O","P","Q","R","S","T","U","V","W","X","Y","Z">>
LowerCase == <<"a","b","c","d","e","f","g","h","i","j","k","l","m",
               "n","o","p","q","r","s","t","u","v","w","x","y","z">>

\* str.lower() on one character
LowerChar(c) ==
    IF \E i \in 1..26 : UpperCase[i] = c
    THEN LowerCase[CHOOSE i \in 1..26 : UpperCase[i] = c]
    ELSE c

\* str.lower()
Lower(s) == [i \in 1..Len(s) |-> LowerChar(s[i])]

\* `t in s` for two strings: t occurs in s as a contiguous substring
Contains(s, t) ==
    \E i \in 0..(Len(s) - Len(t)) : SubSeq(s, i + 1, i + Len(t)) = t

EmptyDict == [k \in {} |-> 0]
NoError == [type |-> "none", msg |-> <<>>]
KeyError(k) == [type |-> "KeyError", msg |-> <<k>>]

(***************************************************************************)
(* The heap.                                                               *)
(***************************************************************************)
\* dict.copy(): a new dict object holding the same values (the same
\* references) under the same keys
DictCopy(h, r) == [heap |-> Append(h, h[r]), ref |-> Len(h) + 1]

\* d[k] = v on the dict object r
DictSet(h, r, k, v) == [h EXCEPT ![r] = (k :> v) @@ @]

RefKeys == {"company", "newsletter", "articles"}

\* The value of the dataset r as Python's == sees it: references followed.
DeepValue(h, r) ==
    [k \in DOMAIN h[r] |-> IF k \in RefKeys THEN h[h[r][k]] ELSE h[r][k]]

\* json.load: the parsed document D (a deep value) as freshly allocated
\* objects, the nested containers first, the top-level dict last
JsonLoad(h, D) ==
    LET h1 == IF "company" \in DOMAIN D THEN Append(h, D["company"]) ELSE h
        h2 == IF "newsletter" \in DOMAIN D THEN Append(h1, D["newsletter"]) ELSE h1
        h3 == IF "articles" \in DOMAIN D THEN Append(h2, D["articles"]) ELSE h2
        top == [k \in DOMAIN D |->
                  CASE k = "company" -> Len(h1)
                    [] k = "newsletter" -> Len(h2)
                    [] k = "articles" -> Len(h3)
                    [] OTHER -> D[k]]
    IN  [heap |-> Append(h3, top), ref |-> Len(h3) + 1]

(***************************************************************************)
(* EmailRenderer.merge_data and _customize_content_for_interests.          *)
(* An operation returns a record holding the heap it leaves behind and the *)
(* exception that left it (NoError when it returned normally).             *)
(***************************************************************************)
S_Hello == <<"H","e","l","l","o"," ">>
S_WelcomeBack == <<","," ","w","e","l","c","o","m","e"," ","b","a","c","k"," ","t","o"," ">>
DefaultCompany == <<"T","e","c","h","F","l","o","w"," ","S","o","l","u","t","i","o","n","s">>

\* f"Hello {name}, welcome back to {company_name}"
Greeting(name, company_name) == S_Hello \o name \o S_WelcomeBack \o company_name

\* a wrong line 143: the company's own name is never looked up
CompanyNameAlwaysDefault(h, merged) == DefaultCompany

\* line 143: merged.get('company', {}).get('name', 'TechFlow Solutions')
CompanyName(h, merged) ==
    LET company == IF "company" \in DOMAIN h[merged]
                   THEN h[h[merged]["company"]] ELSE EmptyDict
    IN  IF "name" \in DOMAIN company THEN company["name"] ELSE DefaultCompany

\* lines 143-144: the greeting is written through merged['newsletter']
PersonalizeGreeting(h, merged, user) ==
    LET company_name == CompanyName(h, merged)
    IN  IF "newsletter" \notin DOMAIN h[merged]
        THEN [heap |-> h, exc |-> KeyError("newsletter")]
        ELSE [heap |-> DictSet(h, h[merged]["newsletter"], "greeting",
                               Greeting(user["name"], company_name)),
              exc |-> NoError]

\* lines 167-168, one interest: "true", "false" or the key whose lookup fails
InterestTest(interest, article) ==
    IF "title" \notin DOMAIN article THEN "title"
    ELSE IF Contains(Lower(article["title"]), Lower(interest)) THEN "true"
    ELSE IF "description" \notin DOMAIN article THEN "description"
    ELSE IF Contains(Lower(article["description"]), Lower(interest)) THEN "true"
    ELSE "false"

\* lines 167-169: any(... for interest in interests), left to right, stopping
\* at the first true (or at the lookup that raises)
RECURSIVE AnyInterest(_, _)
AnyInterest(interests, article) ==
    IF interests = <<>> THEN "false"
    ELSE LET t == InterestTest(Head(interests), article)
         IN  IF t = "false" THEN AnyInterest(Tail(interests), article) ELSE t

\* lines 165-172: the loop over the articles from index i on
RECURSIVE PartitionLoop(_, _, _, _, _)
PartitionLoop(articles, i, interests, prioritized, remaining) ==
    IF i > Len(articles)
    THEN [exc |-> NoError, prioritized |-> prioritized, remaining |-> remaining]
    ELSE LET t == AnyInterest(interests, articles[i])
         IN  CASE t = "true" ->
                    PartitionLoop(articles, i + 1, interests,
                                  Append(prioritized, articles[i]), remaining)
               [] t = "false" ->
                    PartitionLoop(articles, i + 1, interests,
                                  prioritized, Append(remaining, articles[i]))
               [] OTHER ->
                    [exc |-> KeyError(t), prioritized |-> prioritized,
                     remaining |-> remaining]

\* a wrong line 174: the unmatched articles put first
RemainingFirst(prioritized, remaining) == remaining \o prioritized

\* line 174: prioritized + remaining
PrioritizedFirst(prioritized, remaining) == prioritized \o remaining

\* _customize_content_for_interests(data, interests)
CustomizeContentForInterests(h, data, interests) ==
    IF "articles" \in DOMAIN h[data] /\ interests # <<>>
    THEN LET articles == h[h[data]["articles"]]
             p == PartitionLoop(articles, 1, interests, <<>>, <<>>)
             h1 == Append(h, PrioritizedFirst(p.prioritized, p.remaining))
         IN  IF p.exc.type # "none"
             THEN [heap |-> h, exc |-> p.exc]
             ELSE [heap |-> DictSet(h1, data, "articles", Len(h1)), exc |-> NoError]
    ELSE [heap |-> h, exc |-> NoError]

\* a wrong line 138: the personalisation block entered for an empty profile
TruthyAlways(d) == TRUE

\* line 138: `if user_data:`, an empty dict is false
Truthy(d) == DOMAIN d # {}

\* merge_data(base_data, user_data); ret is the reference returned (0 when
\* an exception left the call)
MergeData(h, base, user) ==
    LET cp == DictCopy(h, base)
        merged == cp.ref
    IN  IF ~Truthy(user)
        THEN [heap |-> cp.heap, exc |-> NoError, ret |-> merged]
        ELSE LET h2 == DictSet(cp.heap, merged, "user", user)
                 g == IF "name" \in DOMAIN user
                      THEN PersonalizeGreeting(h2, merged, user)
                      ELSE [heap |-> h2, exc |-> NoError]
                 c == IF "interests" \in DOMAIN user
                      THEN CustomizeContentForInterests(g.heap, merged, user["interests"])
                      ELSE [heap |-> g.heap, exc |-> NoError]
             IN  IF g.exc.type # "none"
                 THEN [heap |-> g.heap, exc |-> g.exc, ret |-> 0]
                 ELSE [heap |-> c.heap, exc |-> c.exc,
                       ret |-> IF c.exc.type = "none" THEN merged ELSE 0]

(***************************************************************************)
(* Inputs: base datasets and user profiles.                                *)
(***************************************************************************)
S_Acme == <<"A","c","m","e">>
S_Sam == <<"S","a","m">>
S_Hi == <<"H","i">>
S_News == <<"N","e","w","s">>

Article(t, d) == [title |-> t, description |-> d]

\* two articles matching the interest "ai" (one by title, one by
\* description, both only when case is ignored), two matching no interest,
\* and two records lacking a field
TheArticles ==
    { Article(<<"A","I">>, <<"x">>),
      Article(<<"x">>, <<"g","o"," ","A","i">>),
      Article(<<"x">>, <<"y">>),
      Article(<<"y">>, <<"x">>),
      [description |-> <<"a","i">>],
      [title |-> <<"A","I">>] }

RECURSIVE SeqsUpTo(_, _)
SeqsUpTo(S, n) ==
    IF n = 0 THEN {<<>>}
    ELSE LET shorter == SeqsUpTo(S, n - 1)
         IN  shorter \cup {Append(q, x) : q \in shorter, x \in S}

CompanyParts == {EmptyDict, "company" :> EmptyDict, "company" :> [name |-> S_Acme]}
NewsletterParts ==
    {EmptyDict, "newsletter" :> [title |-> S_News],
     "newsletter" :> [title |-> S_News, greeting |-> S_Hi]}
ArticlesParts ==
    {EmptyDict} \cup {"articles" :> a : a \in SeqsUpTo(TheArticles, MaxArticles)}

\* the documents a base data file can hold, current_year left out
Documents ==
    {c @@ n @@ a : c \in CompanyParts, n \in NewsletterParts, a \in ArticlesParts}

Years == {2025, 2026}

Interests == {<<>>, <<<<"a","i">>>>, <<<<"G","o">>, <<"A","I">>>>}

\* the documents of the render_email model: fewer articles, and
\* current_year present or not
FileArticles == {Article(<<"A","I">>, <<"x">>), Article(<<"x">>, <<"y">>),
                 [description |-> <<"a","i">>]}

FileDocuments ==
    {c @@ n @@ a @@ y :
        c \in CompanyParts, n \in {EmptyDict, "newsletter" :> [greeting |-> S_Hi]},
        a \in {EmptyDict} \cup {"articles" :> q : q \in SeqsUpTo(FileArticles, MaxFileArticles)},
        y \in {EmptyDict, "current_year" :> 2024}}

UserProfiles ==
    {EmptyDict, [name |-> S_Sam]}
    \cup {[interests |-> i] : i \in Interests}
    \cup {[name |-> S_Sam, interests |-> i] : i \in Interests \ {<<>>}}

(***************************************************************************)
(* The template filters.                                                   *)
(***************************************************************************)
BatchIdle ==
    /\ user_files = <<>>
    /\ batch_i = 0
    /\ rendered_files = <<>>
    /\ written = EmptyDict
    /\ results = <<>>

FiltersIdle ==
    /\ filter = "none"
    /\ text = <<>>
    /\ count = 0
    /\ date_str = <<>>
    /\ format_type = ""
    /\ filtered = <<>>
    /\ filter_error = NoError

\* the characters str.split() takes as separators
IsSpace(c) == c \in {" ", "\t", "\n"}

\* str.split(): the maximal runs of non-blank characters of s from index i
\* on, cur being the run under way
RECURSIVE SplitFrom(_, _, _, _)
SplitFrom(s, i, cur, words) ==
    IF i > Len(s)
    THEN IF cur = <<>> THEN words ELSE Append(words, cur)
    ELSE IF IsSpace(s[i])
         THEN SplitFrom(s, i + 1, <<>>, IF cur = <<>> THEN words ELSE Append(words, cur))
         ELSE SplitFrom(s, i + 1, Append(cur, s[i]), words)

Split(s) == SplitFrom(s, 1, <<>>, <<>>)

\* sep.join(words)
RECURSIVE Join(_, _)
Join(sep, words) ==
    IF words = <<>> THEN <<>>
    ELSE IF Len(words) = 1 THEN words[1]
    ELSE words[1] \o sep \o Join(sep, Tail(words))

\* words[:n]: the first n elements, a negative n counting from the end
SliceTo(words, n) ==
    LET stop == IF n < 0 THEN (IF Len(words) + n < 0 THEN 0 ELSE Len(words) + n)
                ELSE (IF n > Len(words) THEN Len(words) ELSE n)
    IN  SubSeq(words, 1, stop)

\* a wrong line 72: `<` for `<=`
WithinCountStrict(words, n) == Len(words) < n

\* line 72: len(words) <= count
WithinCount(words, n) == Len(words) <= n

\* _truncate_words(text, count)
TruncateWords(t, n) ==
    LET words == Split(t)
    IN  IF WithinCount(words, n) THEN t
        ELSE Join(<<" ">>, SliceTo(words, n)) \o <<".", ".", ".">>

(***************************************************************************)
(* _format_date: datetime.strptime and datetime.strftime on the two        *)
(* formats the filter uses.                                                *)
(***************************************************************************)
Digits == <<"0","1","2","3","4","5","6","7","8","9">>
IsDigit(c) == \E i \in 1..10 : Digits[i] = c
DigitVal(c) == (CHOOSE i \in 1..10 : Digits[i] = c) - 1

\* the character of s at position p, "" past the end
At(s, p) == IF p >= 1 /\ p <= Len(s) THEN s[p] ELSE ""

NoMatch == [ok |-> FALSE, pos |-> 0, val |-> 0]
Match(p, v) == [ok |-> TRUE, pos |-> p, val |-> v]

\* %Y at position p: four digits
MatchYear(s, p) ==
    IF \A i \in 0..3 : IsDigit(At(s, p + i))
    THEN Match(p + 4, DigitVal(s[p]) * 1000 + DigitVal(s[p + 1]) * 100
                      + DigitVal(s[p + 2]) * 10 + DigitVal(s[p + 3]))
    ELSE NoMatch

\* %m at position p: 1[0-2], else 0[1-9], else [1-9]
MatchMonth(s, p) ==
    LET a == At(s, p)
        b == At(s, p + 1)
    IN  IF a = "1" /\ b \in {"0", "1", "2"} THEN Match(p + 2, 10 + DigitVal(b))
        ELSE IF a = "0" /\ IsDigit(b) /\ b # "0" THEN Match(p + 2, DigitVal(b))
        ELSE IF IsDigit(a) /\ a # "0" THEN Match(p + 1, DigitVal(a))
        ELSE NoMatch

\* %d at position p: 3[0-1], else [1-2]\d, else 0[1-9], else [1-9], else
\* a blank and [1-9]
MatchDay(s, p) ==
    LET a == At(s, p)
        b == At(s, p + 1)
    IN  IF a = "3" /\ b \in {"0", "1"} THEN Match(p + 2, 30 + DigitVal(b))
        ELSE IF a \in {"1", "2"} /\ IsDigit(b)
             THEN Match(p + 2, DigitVal(a) * 10 + DigitVal(b))
        ELSE IF a = "0" /\ IsDigit(b) /\ b # "0" THEN Match(p + 2, DigitVal(b))
        ELSE IF IsDigit(a) /\ a # "0" THEN Match(p + 1, DigitVal(a))
        ELSE IF a = " " /\ IsDigit(b) /\ b # "0" THEN Match(p + 2, DigitVal(b))
        ELSE NoMatch

\* a literal character of the format at position p
MatchChar(s, p, c) == IF At(s, p) = c THEN Match(p + 1, 0) ELSE NoMatch

IsLeap(y) == (y % 4 = 0 /\ y % 100 # 0) \/ y % 400 = 0

DaysInMonth(y, m) ==
    IF m = 2 THEN (IF IsLeap(y) THEN 29 ELSE 28)
    ELSE IF m \in {4, 6, 9, 11} THEN 30 ELSE 31

ValueError == [type |-> "ValueError", msg |-> <<>>]

\* datetime(year, month, day): the year is at least MINYEAR, the day is one
\* of the month
MakeDate(y, m, d) ==
    IF y < 1 \/ d > DaysInMonth(y, m)
    THEN [exc |-> ValueError, year |-> 0, month |-> 0, day |-> 0]
    ELSE [exc |-> NoError, year |-> y, month |-> m, day |-> d]

BadDate == [exc |-> ValueError, year |-> 0, month |-> 0, day |-> 0]

\* datetime.strptime(s, "%Y-%m"): the whole of s has to be consumed
StrptimeYM(s) ==
    LET y == MatchYear(s, 1)
        h == IF y.ok THEN MatchChar(s, y.pos, "-") ELSE NoMatch
        m == IF h.ok THEN MatchMonth(s, h.pos) ELSE NoMatch
    IN  IF m.ok /\ m.pos = Len(s) + 1 THEN MakeDate(y.val, m.val, 1) ELSE BadDate

\* datetime.strptime(s, "%Y-%m-%d")
StrptimeYMD(s) ==
    LET y == MatchYear(s, 1)
        h == IF y.ok THEN MatchChar(s, y.pos, "-") ELSE NoMatch
        m == IF h.ok THEN MatchMonth(s, h.pos) ELSE NoMatch
        g == IF m.ok THEN MatchChar(s, m.pos, "-") ELSE NoMatch
        d == IF g.ok THEN MatchDay(s, g.pos) ELSE NoMatch
    IN  IF d.ok /\ d.pos = Len(s) + 1 THEN MakeDate(y.val, m.val, d.val) ELSE BadDate

\* %B
MonthNames ==
    << <<"J","a","n","u","a","r","y">>, <<"F","e","b","r","u","a","r","y">>,
       <<"M","a","r","c","h">>, <<"A","p","r","i","l">>, <<"M","a","y">>,
       <<"J","u","n","e">>, <<"J","u","l","y">>, <<"A","u","g","u","s","t">>,
       <<"S","e","p","t","e","m","b","e","r">>, <<"O","c","t","o","b","e","r">>,
       <<"N","o","v","e","m","b","e","r">>, <<"D","e","c","e","m","b","e","r">> >>

DigitChar(n) == Digits[n + 1]

\* %d: two digits
TwoDigits(n) == <<DigitChar(n \div 10), DigitChar(n % 10)>>

\* %Y for a year of four digits
FourDigits(n) ==
    <<DigitChar(n \div 1000), DigitChar((n \div 100) % 10),
      DigitChar((n \div 10) % 10), DigitChar(n % 10)>>

\* date_obj.strftime("%B %Y")
StrftimeMonthYear(d) == MonthNames[d.month] \o <<" ">> \o FourDigits(d.year)

\* date_obj.strftime("%B %d, %Y")
StrftimeFullDate(d) ==
    MonthNames[d.month] \o <<" ">> \o TwoDigits(d.day) \o <<",", " ">>
    \o FourDigits(d.year)

S_month_year == "month_year"
S_full_date == "full_date"

\* a wrong line 66: nothing is caught
CatchesNothing(exc) == FALSE

\* line 66: except ValueError
CatchesValueError(exc) == exc.type = "ValueError"

\* lines 59-65: the body of the try
FormatDateBody(s, ft) ==
    CASE ft = S_month_year ->
            LET d == StrptimeYM(s)
            IN  IF d.exc.type # "none" THEN [exc |-> d.exc, ret |-> <<>>]
                ELSE [exc |-> NoError, ret |-> StrftimeMonthYear(d)]
      [] ft = S_full_date ->
            LET d == StrptimeYMD(s)
            IN  IF d.exc.type # "none" THEN [exc |-> d.exc, ret |-> <<>>]
                ELSE [exc |-> NoError, ret |-> StrftimeFullDate(d)]
      [] OTHER -> [exc |-> NoError, ret |-> s]

\* _format_date(date_str, format_type)
FormatDate(s, ft) ==
    LET r == FormatDateBody(s, ft)
    IN  IF r.exc.type # "none" /\ CatchesValueError(r.exc)
        THEN [exc |-> NoError, ret |-> s]
        ELSE r

(***************************************************************************)
(* Files, exceptions and the template engine.                              *)
(***************************************************************************)
DataFileName == "email-data.json"
TemplateName == "email-template.j2"

\* what Environment.get_template(name).render(**data) returns: a text
\* determined by the template and the data handed over
Render(template_name, data) == [template |-> template_name, data |-> data]

NoHtml == [template |-> "", data |-> EmptyDict]
NoFile == [exists |-> FALSE, content |-> NoHtml]
OldFile == [exists |-> TRUE, content |-> [template |-> "old", data |-> EmptyDict]]

Range(q) == {q[i] : i \in 1..Len(q)}

\* line 92: FileNotFoundError(f"Data file not found: {data_path}")
DataFileNotFound(name) ==
    [type |-> "FileNotFoundError",
     msg |-> <<"Data file not found: ", "templates/", name>>]

\* json.JSONDecodeError(msg, doc, pos) as the call of line 104 meets it: the
\* constructor takes three arguments, a call with another number of them
\* raises TypeError instead of building the exception
JSONDecodeError(args) ==
    IF Len(args) = 3
    THEN [type |-> "JSONDecodeError", msg |-> args[1]]
    ELSE [type |-> "TypeError",
          msg |-> <<"JSONDecodeError.__init__() missing 2 required positional arguments: 'doc' and 'pos'">>]

\* lines 103-104: raise json.JSONDecodeError(f"Invalid JSON in {data_file}: {e}")
InvalidJsonError(name) ==
    JSONDecodeError(<< <<"Invalid JSON in ", name, ": ", "Expecting value">> >>)

\* load_data(data_file) on the file f at clock year y
LoadDataResult(h, f, y) ==
    CASE f.state = "missing" ->
            [heap |-> h, exc |-> DataFileNotFound(DataFileName), ret |-> 0]
      [] f.state = "malformed" ->
            [heap |-> h, exc |-> InvalidJsonError(DataFileName), ret |-> 0]
      [] OTHER ->
            LET l == JsonLoad(h, f.doc)
            IN  [heap |-> IF "current_year" \notin DOMAIN f.doc
                          THEN DictSet(l.heap, l.ref, "current_year", y)
                          ELSE l.heap,
                 exc |-> NoError, ret |-> l.ref]

\* a wrong load_user_data: the except clauses left out
LoadUserDataRaising(f) ==
    CASE f.state = "missing" ->
            [exc |-> [type |-> "FileNotFoundError", msg |-> <<>>], ret |-> EmptyDict]
      [] f.state = "malformed" ->
            [exc |-> [type |-> "JSONDecodeError", msg |-> <<>>], ret |-> EmptyDict]
      [] OTHER -> [exc |-> NoError, ret |-> f.doc]

\* load_user_data(user_file)
LoadUserDataResult(f) ==
    CASE f.state = "missing" -> [exc |-> NoError, ret |-> EmptyDict]
      [] f.state = "malformed" -> [exc |-> NoError, ret |-> EmptyDict]
      [] OTHER -> [exc |-> NoError, ret |-> f.doc]

\* render_template(template_name, data) with the template in state t
RenderTemplateResult(t, h, data) ==
    CASE t = "missing" ->
            [exc |-> [type |-> "TemplateNotFound", msg |-> <<TemplateName>>],
             ret |-> NoHtml]
      [] t = "failing" ->
            [exc |-> [type |-> "TemplateError", msg |-> <<TemplateName>>],
             ret |-> NoHtml]
      [] OTHER -> [exc |-> NoError, ret |-> Render(TemplateName, DeepValue(h, data))]

(***************************************************************************)
(* A client that holds one base dataset and merges profiles into it, one   *)
(* call after the other.                                                   *)
(***************************************************************************)
InitMerge ==
    /\ \E D \in Documents :
         \E l \in {JsonLoad(<<>>, D @@ ("current_year" :> 2025))} :
             /\ heap = l.heap
             /\ base_data = l.ref
             /\ base_before = DeepValue(l.heap, l.ref)
    /\ user_data = EmptyDict
    /\ merged_data = 0
    /\ error = NoError
    /\ pc = "client"
    /\ data_file = [state |-> "valid", doc |-> EmptyDict]
    /\ user_data_file = [given |-> FALSE, state |-> "missing", doc |-> EmptyDict]
    /\ template = "ok"
    /\ html_content = NoHtml
    /\ output = NoFile
    /\ output0 = NoFile
    /\ trace = <<>>
    /\ FiltersIdle
    /\ BatchIdle

\* The result of the previous call is dropped (its objects are reclaimed:
\* the base's objects are the first base_data objects of the heap), then
\* merge_data(base_data, user) is called.
CallMergeData(user) ==
    \E m \in {MergeData(SubSeq(heap, 1, base_data), base_data, user)} :
        /\ heap' = m.heap
        /\ merged_data' = m.ret
        /\ error' = m.exc
        /\ user_data' = user
        /\ base_before' = DeepValue(heap, base_data)
        /\ UNCHANGED <<base_data, renderVars, filterVars, batchVars>>

NextMerge == \E user \in UserProfiles : CallMergeData(user)

SpecMerge == InitMerge /\ [][NextMerge]_vars

(***************************************************************************)
(* render_email(template_name, data_file, user_data_file, output_file),    *)
(* one action per statement.                                               *)
(***************************************************************************)
FileProfiles == {[name |-> S_Sam], [interests |-> <<<<"a","i">>>>],
                 [name |-> S_Sam, interests |-> <<<<"a","i">>>>]}

Init ==
    /\ heap = <<>>
    /\ base_data = 0
    /\ user_data = EmptyDict
    /\ merged_data = 0
    /\ error = NoError
    /\ base_before = EmptyDict
    /\ pc = "load_data"
    /\ data_file \in
          {[state |-> "missing", doc |-> EmptyDict],
           [state |-> "malformed", doc |-> EmptyDict]}
          \cup {[state |-> "valid", doc |-> D] : D \in FileDocuments}
    /\ user_data_file \in
          {[given |-> FALSE, state |-> "missing", doc |-> EmptyDict],
           [given |-> TRUE, state |-> "missing", doc |-> EmptyDict],
           [given |-> TRUE, state |-> "malformed", doc |-> EmptyDict]}
          \cup {[given |-> TRUE, state |-> "valid", doc |-> u] : u \in FileProfiles}
    /\ template \in {"ok", "missing", "failing"}
    /\ html_content = NoHtml
    /\ output0 \in {NoFile, OldFile}
    /\ output = output0
    /\ trace = <<>>
    /\ FiltersIdle
    /\ BatchIdle

\* an exception leaves render_email
Fail(exc) ==
    /\ pc' = "failed"
    /\ error' = exc

\* line 227: base_data = self.load_data(data_file)
LoadData ==
    /\ pc = "load_data"
    /\ \E y \in Years :
         \E r \in {LoadDataResult(heap, data_file, y)} :
            /\ heap' = r.heap
            /\ base_data' = r.ret
            /\ IF r.exc.type # "none" THEN Fail(r.exc)
               ELSE pc' = "load_user_data" /\ UNCHANGED error
    /\ trace' = Append(trace, "load_data")
    /\ UNCHANGED <<user_data, merged_data, base_before, data_file, user_data_file,
                   template, html_content, output, output0, filterVars, batchVars>>

\* lines 230-233: user_data = {}; if user_data_file: user_data = load_user_data(...)
LoadUserData ==
    /\ pc = "load_user_data"
    /\ IF user_data_file.given
       THEN \E r \in {LoadUserDataResult(user_data_file)} :
              /\ user_data' = r.ret
              /\ IF r.exc.type # "none" THEN Fail(r.exc)
                 ELSE pc' = "merge_data" /\ UNCHANGED error
              /\ trace' = Append(trace, "load_user_data")
       ELSE /\ user_data' = EmptyDict
            /\ pc' = "merge_data"
            /\ UNCHANGED <<error, trace>>
    /\ UNCHANGED <<heap, base_data, merged_data, base_before, data_file,
                   user_data_file, template, html_content, output, output0, filterVars, batchVars>>

\* line 237: merged_data = self.merge_data(base_data, user_data)
Merge ==
    /\ pc = "merge_data"
    /\ \E m \in {MergeData(heap, base_data, user_data)} :
         /\ heap' = m.heap
         /\ merged_data' = m.ret
         /\ IF m.exc.type # "none" THEN Fail(m.exc)
            ELSE pc' = "render_template" /\ UNCHANGED error
    /\ base_before' = DeepValue(heap, base_data)
    /\ trace' = Append(trace, "merge_data")
    /\ UNCHANGED <<base_data, user_data, data_file, user_data_file, template,
                   html_content, output, output0, filterVars, batchVars>>

\* a wrong render step: the output file opened for writing before the
\* template is rendered, so that a failing render leaves it empty
RenderTemplateTruncating ==
    /\ pc = "render_template"
    /\ \E r \in {RenderTemplateResult(template, heap, merged_data)} :
         /\ html_content' = r.ret
         /\ IF r.exc.type # "none" THEN Fail(r.exc)
            ELSE pc' = "save_rendered_email" /\ UNCHANGED error
    /\ output' = [exists |-> TRUE, content |-> NoHtml]
    /\ trace' = Append(trace, "render_template")
    /\ UNCHANGED <<heap, base_data, user_data, merged_data, base_before, data_file,
                   user_data_file, template, output0, filterVars, batchVars>>

\* line 241: html_content = self.render_template(template_name, merged_data)
RenderTemplate ==
    /\ pc = "render_template"
    /\ \E r \in {RenderTemplateResult(template, heap, merged_data)} :
         /\ html_content' = r.ret
         /\ IF r.exc.type # "none" THEN Fail(r.exc)
            ELSE pc' = "save_rendered_email" /\ UNCHANGED error
    /\ trace' = Append(trace, "render_template")
    /\ UNCHANGED <<heap, base_data, user_data, merged_data, base_before, data_file,
                   user_data_file, template, output, output0, filterVars, batchVars>>

\* lines 244-247: output_path = self.save_rendered_email(html_content, output_file)
SaveRenderedEmail ==
    /\ pc = "save_rendered_email"
    /\ output' = [exists |-> TRUE, content |-> html_content]
    /\ pc' = "done"
    /\ trace' = Append(trace, "save_rendered_email")
    /\ UNCHANGED <<mergeVars, data_file, user_data_file, template, html_content,
                   output0, filterVars, batchVars>>

Next == LoadData \/ LoadUserData \/ Merge \/ RenderTemplate \/ SaveRenderedEmail

Spec == Init /\ [][Next]_vars

(***************************************************************************)
(* batch_render_emails: one renderer, render_email called once per user    *)
(* data file, each call inside try / except Exception.                     *)
(***************************************************************************)
\* a wrong line 227: the base dataset loaded by the first call kept and
\* handed to the later calls
LoadBaseOnce(h, base, f, y) ==
    IF base # 0
    THEN [heap |-> h, exc |-> NoError, ret |-> base]
    ELSE LoadDataResult(h, f, y)

\* line 227: base_data = self.load_data(data_file), whatever an earlier call
\* of render_email loaded (base: the reference that call held)
LoadBase(h, base, f, y) == LoadDataResult(h, f, y)

\* render_email(user_data_file=uf, output_file=...) as one call: the heap it
\* leaves, the exception that left it, the base it loaded, the value of the
\* dataset it handed to the template and the text it wrote
RenderEmail(h, base, f, uf, t, y) ==
    LET ld == LoadBase(h, base, f, y)
        ud == IF uf.given THEN LoadUserDataResult(uf)
              ELSE [exc |-> NoError, ret |-> EmptyDict]
        m == MergeData(ld.heap, ld.ret, ud.ret)
        r == RenderTemplateResult(t, m.heap, m.ret)
    IN  CASE ld.exc.type # "none" ->
               [heap |-> ld.heap, exc |-> ld.exc, base |-> base,
                merged |-> EmptyDict, html |-> NoHtml]
          [] ud.exc.type # "none" ->
               [heap |-> ld.heap, exc |-> ud.exc, base |-> ld.ret,
                merged |-> EmptyDict, html |-> NoHtml]
          [] m.exc.type # "none" ->
               [heap |-> m.heap, exc |-> m.exc, base |-> ld.ret,
                merged |-> EmptyDict, html |-> NoHtml]
          [] r.exc.type # "none" ->
               [heap |-> m.heap, exc |-> r.exc, base |-> ld.ret,
                merged |-> DeepValue(m.heap, m.ret), html |-> NoHtml]
          [] OTHER ->
               [heap |-> m.heap, exc |-> NoError, base |-> ld.ret,
                merged |-> DeepValue(m.heap, m.ret), html |-> r.ret]

\* lines 37-38: user_<n>_data.json gives batch_rendered_user_<n>.html
OutputFile(n) == <<"batch_rendered_", "user_", n, ".html">>

\* the documents of the batch model: with and without the company's name
\* and the newsletter, with articles an interest reorders and with an
\* article lacking its title
BatchDocuments ==
    {c @@ n @@ a @@ ("current_year" :> 2024) :
        c \in CompanyParts, n \in {EmptyDict, "newsletter" :> [greeting |-> S_Hi]},
        a \in {EmptyDict,
               "articles" :> <<Article(<<"x">>, <<"y">>), Article(<<"A","I">>, <<"x">>)>>,
               "articles" :> <<Article(<<"A","I">>, <<"x">>), [description |-> <<"a","i">>]>>}}

\* the files user_*_data.json can hold
UserFileKinds ==
    {[state |-> "malformed", doc |-> EmptyDict]}
    \cup {[state |-> "valid", doc |-> u] : u \in FileProfiles}

\* line 24: what the glob returns: the files numbered 1..n, in either order
GlobResults ==
    {[k \in 1..Len(q) |->
        [given |-> TRUE, name |-> IF up THEN k ELSE Len(q) + 1 - k,
         state |-> q[k].state, doc |-> q[k].doc]] :
        q \in SeqsUpTo(UserFileKinds, MaxUsers), up \in BOOLEAN}

InitBatch ==
    /\ heap = <<>>
    /\ base_data = 0
    /\ user_data = EmptyDict
    /\ merged_data = 0
    /\ error = NoError
    /\ base_before = EmptyDict
    /\ pc = "batch_start"
    /\ data_file \in
          {[state |-> "missing", doc |-> EmptyDict],
           [state |-> "malformed", doc |-> EmptyDict]}
          \cup {[state |-> "valid", doc |-> D] : D \in BatchDocuments}
    /\ user_data_file = [given |-> FALSE, state |-> "missing", doc |-> EmptyDict]
    /\ template \in {"ok", "failing"}
    /\ html_content = NoHtml
    /\ output = NoFile
    /\ output0 = NoFile
    /\ trace = <<>>
    /\ FiltersIdle
    /\ user_files \in GlobResults
    /\ batch_i = 0
    /\ rendered_files = <<>>
    /\ written = EmptyDict
    /\ results = <<>>

\* lines 24-32: no user data file: the function returns; else the loop starts
BatchStart ==
    /\ pc = "batch_start"
    /\ IF user_files = <<>>
       THEN pc' = "batch_done" /\ UNCHANGED batch_i
       ELSE pc' = "batch_loop" /\ batch_i' = 1
    /\ UNCHANGED <<mergeVars, fileVars, filterVars, user_files, rendered_files,
                   written, results>>

\* lines 34-52: one turn of the loop: render_email for the next user file;
\* its path appended when it returns, the exception swallowed when it raises
BatchRenderNext ==
    /\ pc = "batch_loop"
    /\ batch_i <= Len(user_files)
    /\ \E y \in Years :
         \E r \in {RenderEmail(heap, base_data, data_file, user_files[batch_i],
                                template, y)} :
            /\ heap' = r.heap
            /\ base_data' = r.base
            /\ results' = Append(results, [exc |-> r.exc, merged |-> r.merged])
            /\ IF r.exc.type = "none"
               THEN /\ written' = (OutputFile(user_files[batch_i].name) :> r.html)
                                   @@ written
                    /\ rendered_files' =
                          Append(rendered_files, OutputFile(user_files[batch_i].name))
               ELSE UNCHANGED <<written, rendered_files>>
    /\ batch_i' = batch_i + 1
    /\ UNCHANGED <<user_data, merged_data, error, base_before, pc, fileVars,
                   filterVars, user_files>>

\* lines 54-57: the loop is over, the summary is printed
BatchFinish ==
    /\ pc = "batch_loop"
    /\ batch_i > Len(user_files)
    /\ pc' = "batch_done"
    /\ UNCHANGED <<mergeVars, fileVars, filterVars, batchVars>>

NextBatch == BatchStart \/ BatchRenderNext \/ BatchFinish

SpecBatch == InitBatch /\ [][NextBatch]_vars

(***************************************************************************)
(* The filters applied to one input after the other.                       *)
(***************************************************************************)
S_abcde == <<"a"," ","b"," ","c"," ","d"," ","e">>

Texts == SeqsUpTo({"a", "b", " "}, MaxLen) \cup {S_abcde, <<"a","\t","b","\n">>}
Counts == (0 - 1)..MaxCount \cup {5}

YearTexts == {<<"2","0","2","4">>, <<"2","0","2","3">>, <<"0","0","0","0">>, <<"2","4">>}
MonthTexts == {<<"0","3">>, <<"3">>, <<"1","2">>, <<"1","3">>, <<"0","0">>, <<"0","2">>}
DayTexts == {<<>>, <<"-","1","5">>, <<"-","5">>, <<"-","3","0">>, <<"-","2","9">>,
             <<"-","3","2">>, <<"-"," ","5">>, <<" ">>}

DateTexts ==
    {y \o h \o m \o d :
        y \in YearTexts, h \in {<<"-">>, <<"/">>}, m \in MonthTexts, d \in DayTexts}
    \cup {<<"n","o","t","-","a","-","d","a","t","e">>, <<>>}

FormatTypes == {S_month_year, S_full_date, "iso"}

InitFilters ==
    /\ \/ /\ filter = "truncate_words"
          /\ text \in Texts
          /\ count \in Counts
          /\ date_str = <<>>
          /\ format_type = ""
       \/ /\ filter = "format_date"
          /\ date_str \in DateTexts
          /\ format_type \in FormatTypes
          /\ text = <<>>
          /\ count = 0
    /\ filtered = <<>>
    /\ filter_error = NoError
    /\ heap = <<>>
    /\ base_data = 0
    /\ user_data = EmptyDict
    /\ merged_data = 0
    /\ error = NoError
    /\ base_before = EmptyDict
    /\ pc = "filter"
    /\ data_file = [state |-> "valid", doc |-> EmptyDict]
    /\ user_data_file = [given |-> FALSE, state |-> "missing", doc |-> EmptyDict]
    /\ template = "ok"
    /\ html_content = NoHtml
    /\ output = NoFile
    /\ output0 = NoFile
    /\ trace = <<>>
    /\ BatchIdle

\* {{ t | truncate_words(n) }}
ApplyTruncateWords ==
    /\ pc = "filter" /\ filter = "truncate_words"
    /\ filtered' = TruncateWords(text, count)
    /\ filter_error' = NoError
    /\ pc' = "filtered"
    /\ UNCHANGED <<filter, text, count, date_str, format_type, mergeVars, fileVars,
                   batchVars>>

\* {{ s | format_date(ft) }}
ApplyFormatDate ==
    /\ pc = "filter" /\ filter = "format_date"
    /\ \E r \in {FormatDate(date_str, format_type)} :
         /\ filtered' = r.ret
         /\ filter_error' = r.exc
    /\ pc' = "filtered"
    /\ UNCHANGED <<filter, text, count, date_str, format_type, mergeVars, fileVars,
                   batchVars>>

NextFilters ==
    \/ ApplyTruncateWords
    \/ ApplyFormatDate

SpecFilters == InitFilters /\ [][NextFilters]_vars

(***************************************************************************)
(* Properties of merge_data, checked under SpecMerge.                      *)
(***************************************************************************)
Returned == merged_data # 0
Raised == error.type # "none"

\* C1: merge_data never changes the caller's base dataset: after every call
\* each key of the base, the nested newsletter mapping and the articles
\* included, holds the value it held before the call.
C1_BaseNeverMutated == DeepValue(heap, base_data) = base_before

\* C2: merging an empty profile returns a dataset equal to the base: the
\* call returns, no `user` key is added, the greeting and the articles are
\* those of the base.
C2_EmptyUserReturnsBase ==
    (DOMAIN user_data = {} /\ (Returned \/ Raised)) =>
        /\ Returned /\ ~Raised
        /\ "user" \notin DOMAIN heap[merged_data]
        /\ DeepValue(heap, merged_data) = base_before

C2_Witness ==
    /\ DOMAIN user_data = {} /\ Returned
    /\ "newsletter" \in DOMAIN base_before
    /\ "greeting" \in DOMAIN base_before["newsletter"]
    /\ "articles" \in DOMAIN base_before
    /\ Len(base_before["articles"]) >= 2

\* "title or description contains at least one interest as a
\* case-insensitive substring", stated on its own
FieldHas(article, k, interest) ==
    k \in DOMAIN article /\ Contains(Lower(article[k]), Lower(interest))

Matches(article, interests) ==
    \E i \in 1..Len(interests) :
        FieldHas(article, "title", interests[i])
        \/ FieldHas(article, "description", interests[i])

StablePartition(articles, interests) ==
    LET yes(a) == Matches(a, interests)
        no(a) == ~Matches(a, interests)
    IN  SelectSeq(articles, yes) \o SelectSeq(articles, no)

HasInterests ==
    "interests" \in DOMAIN user_data /\ user_data["interests"] # <<>>

\* C3: with a non-empty interests sequence the returned articles are the
\* base articles stably partitioned: the matching ones first, then the
\* others, each group in its original order, nothing lost or duplicated.
C3_StablePartition ==
    (Returned /\ HasInterests /\ "articles" \in DOMAIN base_before) =>
        heap[heap[merged_data]["articles"]]
            = StablePartition(base_before["articles"], user_data["interests"])

C3_Witness ==
    /\ Returned /\ HasInterests /\ "articles" \in DOMAIN base_before
    /\ LET a == base_before["articles"]
           i == user_data["interests"]
       IN  /\ Len(a) = 3
           /\ ~Matches(a[1], i) /\ Matches(a[2], i) /\ ~Matches(a[3], i)
           /\ a[1] # a[3]
           /\ heap[heap[merged_data]["articles"]] = <<a[2], a[1], a[3]>>

ExpectedGreeting(name, company) ==
    <<"H","e","l","l","o"," ">> \o name
    \o <<",", " ", "w","e","l","c","o","m","e", " ", "b","a","c","k", " ", "t","o", " ">>
    \o company

CompanyOf(D) ==
    IF "company" \in DOMAIN D /\ "name" \in DOMAIN D["company"]
    THEN D["company"]["name"]
    ELSE <<"T","e","c","h","F","l","o","w"," ","S","o","l","u","t","i","o","n","s">>

\* C4: a returned dataset's greeting is "Hello <name>, welcome back to
\* <company>" when the profile has a name (company.name of the base, or
\* "TechFlow Solutions" when the base has none), and the base's newsletter
\* unchanged when the profile has no name.
C4_Greeting ==
    Returned =>
        IF "name" \in DOMAIN user_data
        THEN heap[heap[merged_data]["newsletter"]]["greeting"]
                = ExpectedGreeting(user_data["name"], CompanyOf(base_before))
        ELSE "newsletter" \in DOMAIN base_before =>
                heap[heap[merged_data]["newsletter"]] = base_before["newsletter"]

C4_Witness ==
    /\ Returned /\ "name" \in DOMAIN user_data
    /\ "company" \in DOMAIN base_before
    /\ "name" \in DOMAIN base_before["company"]
    /\ heap[heap[merged_data]["newsletter"]]["greeting"]
         = <<"H","e","l","l","o"," ","S","a","m",","," ","w","e","l","c","o","m","e",
             " ","b","a","c","k"," ","t","o"," ","A","c","m","e">>

\* C5: merge_data never fails, whatever optional keys are absent.
C5_MergeNeverFails == ~Raised

(***************************************************************************)
(* Properties of render_email, checked under Spec.                         *)
(***************************************************************************)
FailedIn(method) ==
    pc = "failed" /\ trace # <<>> /\ trace[Len(trace)] = method

\* C6: with a malformed base data file load_data fails with an invalid data
\* format error (the JSON decode error the method documents) whose message
\* holds the data file's name; with the file missing it fails with a data
\* source not found error.
C6_LoadDataErrors ==
    FailedIn("load_data") =>
        /\ data_file.state = "missing" => error.type = "FileNotFoundError"
        /\ data_file.state = "malformed" =>
              error.type = "JSONDecodeError" /\ DataFileName \in Range(error.msg)

\* the profile file is not given, or is missing, or is malformed
NoProfile == ~user_data_file.given \/ user_data_file.state # "valid"
Unreadable == user_data_file.given /\ user_data_file.state # "valid"

\* C7: a missing or malformed personalization file never fails a render:
\* the profile is empty, no failure comes from loading it or from merging,
\* the merged dataset equals the base and the output written is the base
\* rendered, as when no user data file is given.
C7_UnreadableProfile ==
    NoProfile =>
        /\ user_data = EmptyDict
        /\ pc = "failed" => (FailedIn("load_data") \/ FailedIn("render_template"))
        /\ merged_data # 0 =>
              DeepValue(heap, merged_data) = DeepValue(heap, base_data)
        /\ pc = "merge_data" => (Unreadable => trace[Len(trace)] = "load_user_data")
        /\ pc = "done" =>
              output = [exists |-> TRUE,
                        content |-> Render(TemplateName, DeepValue(heap, base_data))]

C7_Witness ==
    /\ Unreadable /\ user_data_file.state = "malformed"
    /\ pc = "done"
    /\ output # output0
    /\ "articles" \in DOMAIN heap[base_data]

IsPrefix(p, q) == Len(p) <= Len(q) /\ SubSeq(q, 1, Len(p)) = p

\* the calls of a render_email that succeeds
StepOrder ==
    IF user_data_file.given
    THEN <<"load_data", "load_user_data", "merge_data", "render_template",
           "save_rendered_email">>
    ELSE <<"load_data", "merge_data", "render_template", "save_rendered_email">>

\* C10: render_email runs load base data, load user data, merge, render,
\* write in this order; the output file is written only once every earlier
\* step has succeeded, and a failing call leaves the output file as it was.
C10_AllOrNothing ==
    /\ IsPrefix(trace, StepOrder)
    /\ output # output0 => (pc = "done" /\ trace = StepOrder /\ ~Raised)
    /\ pc = "done" => output = [exists |-> TRUE, content |-> html_content]
    /\ pc = "failed" => (Raised /\ output = output0)

C10_Witness ==
    /\ FailedIn("render_template")
    /\ trace = <<"load_data", "load_user_data", "merge_data", "render_template">>
    /\ output0 = OldFile /\ output = OldFile

(***************************************************************************)
(* Properties of the filters, checked under SpecFilters.                   *)
(***************************************************************************)
\* the words of s, stated on its own: the maximal runs of non-blank
\* characters, as pairs <<first index, last index>>
WordSpans(s) ==
    {sp \in (1..Len(s)) \X (1..Len(s)) :
        /\ sp[1] <= sp[2]
        /\ \A i \in sp[1]..sp[2] : ~(s[i] \in {" ", "\t", "\n"})
        /\ sp[1] = 1 \/ s[sp[1] - 1] \in {" ", "\t", "\n"}
        /\ sp[2] = Len(s) \/ s[sp[2] + 1] \in {" ", "\t", "\n"}}

NthWord(s, k) ==
    LET sp == CHOOSE x \in WordSpans(s) :
                  Cardinality({y \in WordSpans(s) : y[1] < x[1]}) = k - 1
    IN  SubSeq(s, sp[1], sp[2])

\* the first n words of s, one space between two of them
RECURSIVE FirstWords(_, _)
FirstWords(s, n) ==
    IF n = 0 THEN <<>>
    ELSE IF n = 1 THEN NthWord(s, 1)
    ELSE FirstWords(s, n - 1) \o <<" ">> \o NthWord(s, n)

Truncated == pc = "filtered" /\ filter = "truncate_words"

\* C8 as stated: text unchanged when its word count is <= limit, otherwise
\* the first limit words joined by single spaces and then the ellipsis
\* marker, with truncate_words("a b c d e", 3) = "a b c ..." and
\* truncate_words("a b", 5) = "a b".
C8_AsStated ==
    Truncated =>
        /\ Cardinality(WordSpans(text)) <= count => filtered = text
        /\ (Cardinality(WordSpans(text)) > count /\ count >= 0) =>
              filtered = FirstWords(text, count) \o <<".", ".", ".">>
        /\ (text = <<"a"," ","b"," ","c"," ","d"," ","e">> /\ count = 3) =>
              filtered = <<"a"," ","b"," ","c"," ",".",".",".">>
        /\ (text = <<"a"," ","b">> /\ count = 5) => filtered = <<"a"," ","b">>

\* C8, amended: text unchanged when its word count is <= limit, otherwise
\* the first limit words (for a negative limit: all but the last -limit
\* words) joined by single spaces with "..." appended directly, no space
\* before it: truncate_words("a b c d e", 3) = "a b c..." and
\* truncate_words("a b", 5) = "a b".
C8_TruncateWords ==
    Truncated =>
        /\ Cardinality(WordSpans(text)) <= count => filtered = text
        /\ (Cardinality(WordSpans(text)) > count /\ count >= 0) =>
              filtered = FirstWords(text, count) \o <<".", ".", ".">>
        /\ count < 0 =>
              LET n == Cardinality(WordSpans(text)) + count
              IN  filtered = FirstWords(text, IF n < 0 THEN 0 ELSE n) \o <<".", ".", ".">>
        /\ (text = <<"a"," ","b"," ","c"," ","d"," ","e">> /\ count = 3) =>
              filtered = <<"a"," ","b"," ","c",".",".",".">>
        /\ (text = <<"a"," ","b">> /\ count = 5) => filtered = <<"a"," ","b">>

C8_Witness ==
    /\ Truncated
    /\ text = <<"a"," ","b"," ","c"," ","d"," ","e">> /\ count = 3
    /\ filtered = <<"a"," ","b"," ","c",".",".",".">>

\* what "value parses as YYYY-MM" and "as YYYY-MM-DD" mean, stated on their
\* own: four digits of a year from 1 on, a hyphen, a month of 1 to 12
\* written with one or two digits, and for a full date a hyphen and a day
\* of that month written with one or two digits or a blank and a digit
NumberTexts(n) ==
    IF n < 10
    THEN {<<Digits[n + 1]>>, <<"0", Digits[n + 1]>>}
    ELSE {<<Digits[(n \div 10) + 1], Digits[(n % 10) + 1]>>}

YearOf(v) ==
    IF Len(v) >= 4 /\ \A i \in 1..4 : \E k \in 1..10 : Digits[k] = v[i]
    THEN LET d(i) == (CHOOSE k \in 1..10 : Digits[k] = v[i]) - 1
         IN  d(1) * 1000 + d(2) * 100 + d(3) * 10 + d(4)
    ELSE 0

MonthsRead(v) ==
    {m \in 1..12 : YearOf(v) >= 1 /\ \E mt \in NumberTexts(m) :
                      v = SubSeq(v, 1, 4) \o <<"-">> \o mt}

LastDay(y, m) ==
    CASE m \in {1, 3, 5, 7, 8, 10, 12} -> 31
      [] m \in {4, 6, 9, 11} -> 30
      [] OTHER -> IF (y % 4 = 0 /\ y % 100 # 0) \/ y % 400 = 0 THEN 29 ELSE 28

DaysRead(v) ==
    {md \in (1..12) \X (1..31) :
        /\ YearOf(v) >= 1
        /\ md[2] <= LastDay(YearOf(v), md[1])
        /\ \E mt \in NumberTexts(md[1]) :
             \E dt \in NumberTexts(md[2])
                       \cup (IF md[2] < 10 THEN {<<" ", Digits[md[2] + 1]>>} ELSE {}) :
                v = SubSeq(v, 1, 4) \o <<"-">> \o mt \o <<"-">> \o dt}

DateFormatted == pc = "filtered" /\ filter = "format_date"

S_2024_03 == <<"2","0","2","4","-","0","3">>
S_March_2024 == <<"M","a","r","c","h"," ","2","0","2","4">>

\* C9: format_date never fails on a string: a value that does not parse in
\* the format of the mode, or a mode that is neither month_year nor
\* full_date, gives the value back unchanged; a value that parses gives the
\* month's name and the year ("2024-03" gives "March 2024"), with the day
\* for full_date ("2024-03-15" gives "March 15, 2024").
C9_FormatDate ==
    DateFormatted =>
        /\ filter_error.type = "none"
        /\ format_type \notin {"month_year", "full_date"} => filtered = date_str
        /\ format_type = "month_year" =>
              IF MonthsRead(date_str) = {} THEN filtered = date_str
              ELSE \E m \in MonthsRead(date_str) :
                      filtered = MonthNames[m] \o <<" ">> \o SubSeq(date_str, 1, 4)
        /\ format_type = "full_date" =>
              IF DaysRead(date_str) = {} THEN filtered = date_str
              ELSE \E md \in DaysRead(date_str) :
                      filtered = MonthNames[md[1]] \o <<" ">>
                                 \o <<Digits[(md[2] \div 10) + 1], Digits[(md[2] % 10) + 1]>>
                                 \o <<",", " ">> \o SubSeq(date_str, 1, 4)
        /\ (date_str = S_2024_03 /\ format_type = "month_year") =>
              filtered = S_March_2024
        /\ (date_str = S_2024_03 \o <<"-","1","5">> /\ format_type = "full_date") =>
              filtered = <<"M","a","r","c","h"," ","1","5",","," ","2","0","2","4">>
        /\ date_str = <<"n","o","t","-","a","-","d","a","t","e">> =>
              filtered = date_str

C9_Witness ==
    /\ DateFormatted
    /\ date_str = S_2024_03 /\ format_type = "month_year"
    /\ filtered = S_March_2024

(***************************************************************************)
(* Properties of batch_render_emails, checked under SpecBatch.             *)
(***************************************************************************)
\* the profile render_email gets from the k-th user file
ProfileOf(k) ==
    IF user_files[k].state = "valid" THEN user_files[k].doc
    ELSE [x \in {} |-> 0]

Succeeded(k) == results[k].exc.type = "none"

\* the dataset render_email(k-th user file) merges when the data file alone
\* and this user's profile decide it: greeting and articles
OwnGreeting(k) ==
    LET D == data_file.doc
        u == ProfileOf(k)
        m == results[k].merged
    IN  IF "name" \in DOMAIN u
        THEN m["newsletter"]["greeting"] = ExpectedGreeting(u["name"], CompanyOf(D))
        ELSE /\ "newsletter" \in DOMAIN m <=> "newsletter" \in DOMAIN D
             /\ "newsletter" \in DOMAIN D => m["newsletter"] = D["newsletter"]

OwnArticles(k) ==
    LET D == data_file.doc
        u == ProfileOf(k)
        m == results[k].merged
    IN  /\ "articles" \in DOMAIN m <=> "articles" \in DOMAIN D
        /\ "articles" \in DOMAIN D =>
              m["articles"] =
                 IF "interests" \in DOMAIN u /\ u["interests"] # <<>>
                 THEN StablePartition(D["articles"], u["interests"])
                 ELSE D["articles"]

\* the output paths of the user files among the first n whose render
\* succeeded, in the order they were treated
RECURSIVE SucceededPaths(_)
SucceededPaths(n) ==
    IF n = 0 THEN <<>>
    ELSE IF results[n].exc.type = "none"
         THEN Append(SucceededPaths(n - 1),
                     <<"batch_rendered_", "user_", user_files[n].name, ".html">>)
         ELSE SucceededPaths(n - 1)

\* C11: in batch_render_emails each user's render is independent of the
\* others: the dataset merged for a user holds the greeting and the article
\* order that the data file and this user's own profile give, a failing
\* render does not stop the loop, and rendered_files holds exactly the
\* output paths of the users whose render succeeded, in processing order.
C11_BatchIndependent ==
    /\ \A k \in 1..Len(results) :
          (Succeeded(k) \/ results[k].exc.type \in {"TemplateError", "TemplateNotFound"})
             => (OwnGreeting(k) /\ OwnArticles(k))
    /\ pc = "batch_loop" => Len(results) = batch_i - 1
    /\ pc = "batch_done" => Len(results) = Len(user_files)
    /\ rendered_files = SucceededPaths(Len(results))
    /\ DOMAIN written = {rendered_files[j] : j \in 1..Len(rendered_files)}

\* a user with a name fails (the data file has no newsletter), the next
\* user, without a name, is rendered, and only its path is listed
C11_WitnessFailureThenSuccess ==
    /\ pc = "batch_done"
    /\ Len(results) = 2
    /\ ~Succeeded(1) /\ Succeeded(2)
    /\ rendered_files = <<OutputFile(user_files[2].name)>>

\* a user with a name is rendered, then a user without one: the second
\* dataset holds the data file's greeting
C11_Witness ==
    /\ pc = "batch_done"
    /\ Len(results) = 2
    /\ Succeeded(1) /\ Succeeded(2)
    /\ "name" \in DOMAIN ProfileOf(1)
    /\ "name" \notin DOMAIN ProfileOf(2)
    /\ results[1].merged["newsletter"]["greeting"] # S_Hi
    /\ results[2].merged["newsletter"]["greeting"] = S_Hi
    /\ Len(rendered_files) = 2

====
